---- MODULE Spec2Model ----
(***************************************************************************)
(* Model of EDGAR_SEC.py: ticker resolution (get_cik), selection of the    *)
(* latest 10-K and the three CSV reports (get_latest_10k_url), the item    *)
(* value lookup (get_value_for_accession) and the report projection        *)
(* (process_financial_statement and its three fixed report definitions).   *)
(*                                                                         *)
(* Python values that may be None are tagged records: None, PyInt(n).        *)
(* A Python str is a sequence of symbols; a symbol stands for one          *)
(* character, or for a run of characters that contains no separator.       *)
(* A Python dict is a function whose DOMAIN is its key set; where the code *)
(* depends on insertion order the dict is a record [keys, vals].           *)
(***************************************************************************)
EXTENDS Integers, Sequences, FiniteSets, TLC

VARIABLES
    pc,                  \* position of the running function
    ticker,              \* argument of get_cik / get_latest_10k_url
    response_text,       \* response.text of the ticker.txt request
    ref_lines,           \* the <<ticker, cik>> lines response_text was built from
    cik,                 \* value returned by get_cik
    item_data,           \* argument of get_value_for_accession
    accession_number,    \* target accession
    value,               \* value returned by get_value_for_accession
    facts_data,          \* the facts repository
    items,               \* report definition: ordered label -> item key
    filing_date,         \* filing date handed to the projections
    result,              \* value returned by process_financial_statement
    again,               \* value returned by a repeated call
    allForms,            \* rows of data['filings']['recent']
    income_statement,    \* locals of get_latest_10k_url
    cash_flow_statement,
    balance_sheet,
    files,               \* the three output files: content or NoFile
    writes,              \* number of completed to_csv calls per file
    acquired,            \* acquisition steps that completed successfully
    failed,              \* acquisition steps that failed
    ret                  \* how get_latest_10k_url ended

vars == <<pc, ticker, response_text, ref_lines, cik, item_data,
          accession_number, value, facts_data, items, filing_date, result,
          again, allForms, income_statement, cash_flow_statement,
          balance_sheet, files, writes, acquired, failed, ret>>

cikVars == <<ticker, response_text, ref_lines, cik>>
lookupVars == <<item_data, value>>
projVars == <<items, result, again>>
runVars == <<allForms, income_statement, cash_flow_statement, balance_sheet,
             files, writes, acquired, failed, ret>>

----------------------------------------------------------------------------
(* Bounds of the explored inputs *)

MaxTickerLen == 1
MaxCikLen == 2
MaxLines == 2
MaxObs == 3
MaxVal == 1
MaxItems == 2
MaxFilings == 2
MaxDate == 2

----------------------------------------------------------------------------
(* Python values *)

None == [py |-> "None"]
PyInt(n) == [py |-> "int", v |-> n]
Unbound == [py |-> "unbound"]
Raise(e) == [py |-> "raise", exc |-> e]

Range(s) == {s[i] : i \in 1..Len(s)}
SeqsUpTo(S, n) == UNION {[1..k -> S] : k \in 0..n}
SeqsFromTo(S, m, n) == UNION {[1..k -> S] : k \in m..n}

(* str.split(sep) for a one-symbol separator *)
RECURSIVE split(_, _)
split(s, sep) ==
    IF \A i \in 1..Len(s) : s[i] # sep
    THEN <<s>>
    ELSE LET k == CHOOSE i \in 1..Len(s) :
                      s[i] = sep /\ \A j \in 1..(i - 1) : s[j] # sep
         IN  <<SubSeq(s, 1, k - 1)>> \o split(SubSeq(s, k + 1, Len(s)), sep)

(* str.splitlines(): split at line ends, no empty last line *)
splitlines(text) ==
    LET parts == split(text, "\n")
    IN  IF parts[Len(parts)] = <<>>
        THEN SubSeq(parts, 1, Len(parts) - 1)
        ELSE parts

lowerChar(c) == IF c = "A" THEN "a" ELSE IF c = "B" THEN "b" ELSE c
lower(s) == [i \in 1..Len(s) |-> lowerChar(s[i])]

digit(c) == IF c = "0" THEN 0 ELSE IF c = "1" THEN 1 ELSE 2
RECURSIVE int(_)
int(c) ==
    IF Len(c) = 1 THEN digit(c[1])
    ELSE 10 * int(SubSeq(c, 1, Len(c) - 1)) + digit(c[Len(c)])

(* "\n".join(t + "\t" + c for t, c in lines) *)
RECURSIVE JoinLines(_)
JoinLines(lines) ==
    IF lines = <<>> THEN <<>>
    ELSE LET l == lines[1][1] \o <<"\t">> \o lines[1][2]
         IN  IF Len(lines) = 1 THEN l
             ELSE l \o <<"\n">> \o JoinLines(Tail(lines))

----------------------------------------------------------------------------
(* get_cik *)

(* get_cik comparing the tickers as they are written *)
RECURSIVE get_cik_loop_exact(_, _)
get_cik_loop_exact(tk, lines) ==
    IF lines = <<>> THEN None
    ELSE LET tc == split(lines[1], "\t")
         IN  IF Len(tc) # 2 THEN Raise("ValueError")
             ELSE IF tc[1] = tk THEN PyInt(int(tc[2]))
             ELSE get_cik_loop_exact(tk, Tail(lines))

RECURSIVE get_cik_loop(_, _)
get_cik_loop(tk, lines) ==
    IF lines = <<>> THEN None
    ELSE LET tc == split(lines[1], "\t")
         IN  IF Len(tc) # 2 THEN Raise("ValueError")
             ELSE IF lower(tc[1]) = lower(tk) THEN PyInt(int(tc[2]))
             ELSE get_cik_loop(tk, Tail(lines))

get_cik(tk, text) == get_cik_loop(tk, splitlines(text))

TickerChars == {"a", "A", "b"}
Tickers == SeqsFromTo(TickerChars, 1, MaxTickerLen)
CikDigits == {"0", "1"}
CikStrings == SeqsFromTo(CikDigits, 1, MaxCikLen)
RefTables == SeqsUpTo(Tickers \X CikStrings, MaxLines)

(* Variables a function does not use stay unbound *)
IdleCik == ticker = Unbound /\ response_text = Unbound /\ ref_lines = Unbound
           /\ cik = Unbound
IdleLookup == item_data = Unbound /\ value = Unbound
IdleProj == items = Unbound /\ result = Unbound /\ again = Unbound
IdleRun == allForms = Unbound /\ income_statement = Unbound
           /\ cash_flow_statement = Unbound /\ balance_sheet = Unbound
           /\ files = Unbound /\ writes = Unbound /\ acquired = Unbound
           /\ failed = Unbound /\ ret = Unbound
IdleShared == accession_number = Unbound /\ facts_data = Unbound
              /\ filing_date = Unbound

CikInit ==
    /\ pc = "get_cik"
    /\ ticker \in Tickers
    /\ ref_lines \in RefTables
    /\ response_text = JoinLines(ref_lines)
    /\ cik = Unbound
    /\ IdleLookup /\ IdleProj /\ IdleRun /\ IdleShared

GetCik ==
    /\ pc = "get_cik"
    /\ cik' = get_cik(ticker, response_text)
    /\ pc' = "get_cik_returned"
    /\ UNCHANGED <<ticker, response_text, ref_lines, lookupVars, projVars,
                   runVars, accession_number, facts_data, filing_date>>

CikNext == GetCik
CikSpec == CikInit /\ [][CikNext]_vars

EqIgnoreCase(s, t) ==
    /\ Len(s) = Len(t)
    /\ \A i \in 1..Len(s) :
          s[i] = t[i] \/ {s[i], t[i]} \in {{"a", "A"}, {"b", "B"}}

DigitValue == [c \in {"0", "1", "2"} |->
                  IF c = "0" THEN 0 ELSE IF c = "1" THEN 1 ELSE 2]
RECURSIVE NumberOf(_, _)
NumberOf(c, acc) ==
    IF c = <<>> THEN acc ELSE NumberOf(Tail(c), 10 * acc + DigitValue[c[1]])

MatchingLines ==
    {i \in 1..Len(ref_lines) : EqIgnoreCase(ref_lines[i][1], ticker)}
FirstOf(S) == CHOOSE i \in S : \A j \in S : i <= j

(* C7: get_cik matches the ticker case-insensitively against the lines of *)
(* the reference table and returns, as an integer, the identifier of the   *)
(* first matching line; it returns None when no line matches.              *)
C7_GetCikFirstMatch ==
    pc = "get_cik_returned" =>
        IF MatchingLines = {}
        THEN cik = None
        ELSE cik = PyInt(NumberOf(ref_lines[FirstOf(MatchingLines)][2], 0))

(* two lines match, the first in another case than the query and with a    *)
(* zero-padded identifier that differs from the second line's              *)
C7_Witness ==
    /\ pc = "get_cik_returned"
    /\ \E i, j \in MatchingLines :
          /\ i < j
          /\ i = FirstOf(MatchingLines)
          /\ ref_lines[i][1] # ticker
          /\ ref_lines[i][2][1] = "0"
          /\ NumberOf(ref_lines[i][2], 0) # NumberOf(ref_lines[j][2], 0)
          /\ cik = PyInt(NumberOf(ref_lines[i][2], 0))
          /\ cik # PyInt(0)

----------------------------------------------------------------------------
(* get_value_for_accession *)

(* the scan returning the first entry whatever its accession *)
first_match_any(entries, accn) ==
    IF entries = <<>> THEN None ELSE entries[1].val

(* the scan keeping the last matching entry *)
RECURSIVE last_match(_, _)
last_match(entries, accn) ==
    IF entries = <<>> THEN None
    ELSE IF entries[Len(entries)].accn = accn THEN entries[Len(entries)].val
    ELSE last_match(SubSeq(entries, 1, Len(entries) - 1), accn)

(* for entry in item_data['units']['USD']: return the first match *)
RECURSIVE first_match(_, _)
first_match(entries, accn) ==
    IF entries = <<>> THEN None
    ELSE IF entries[1].accn = accn THEN entries[1].val
    ELSE first_match(Tail(entries), accn)

get_value_for_accession(item, accn) ==
    IF "units" \in DOMAIN item /\ "USD" \in DOMAIN item["units"]
    THEN first_match(item["units"]["USD"], accn)
    ELSE None

Accns == {"A", "B"}
Targets == Accns \cup {"X"}
Vals == {PyInt(n) : n \in 0..MaxVal}
Entries == [accn : Accns, val : Vals]
UsdLists == SeqsUpTo(Entries, MaxObs)
ShareLists == {<<[accn |-> a, val |-> PyInt(MaxVal)]>> : a \in Accns}
EmptyDict == [k \in {} |-> None]
UnitsDicts ==
    {EmptyDict}
    \cup {[USD |-> l] : l \in UsdLists}
    \cup {[shares |-> h] : h \in ShareLists}
    \cup {[USD |-> l, shares |-> h] : l \in UsdLists, h \in ShareLists}
ItemRecords ==
    {[label |-> "item"]}
    \cup {[label |-> "item", units |-> u] : u \in UnitsDicts}

LookupInit ==
    /\ pc = "lookup"
    /\ item_data \in ItemRecords
    /\ accession_number \in Targets
    /\ value = Unbound
    /\ facts_data = Unbound /\ filing_date = Unbound
    /\ IdleCik /\ IdleProj /\ IdleRun

Lookup ==
    /\ pc = "lookup"
    /\ value' = get_value_for_accession(item_data, accession_number)
    /\ pc' = "lookup_returned"
    /\ UNCHANGED <<item_data, accession_number, facts_data, filing_date,
                   cikVars, projVars, runVars>>

LookupNext == Lookup
LookupSpec == LookupInit /\ [][LookupNext]_vars

(* the 'USD' observations of the record, none when the unit is absent *)
UsdOf(item) ==
    IF "units" \in DOMAIN item /\ "USD" \in DOMAIN item["units"]
    THEN item["units"]["USD"] ELSE <<>>
MatchesOf(item, accn) ==
    {i \in 1..Len(UsdOf(item)) : UsdOf(item)[i].accn = accn}

(* C1: get_value_for_accession returns a value v only if some 'USD'        *)
(* observation has the target accession and val v; it returns None when    *)
(* the 'USD' unit is absent, its list is empty or no observation in it has *)
(* the target accession, whatever other accessions or units contain.       *)
C1_LookupOnlyTargetAccession ==
    pc = "lookup_returned" =>
        /\ value # None =>
              \E i \in MatchesOf(item_data, accession_number) :
                  UsdOf(item_data)[i].val = value
        /\ MatchesOf(item_data, accession_number) = {} => value = None

(* a value is found behind an observation of another accession, while      *)
(* another unit also holds an observation *)
C1_Witness ==
    /\ pc = "lookup_returned"
    /\ value # None
    /\ Len(UsdOf(item_data)) >= 2
    /\ UsdOf(item_data)[1].accn # accession_number
    /\ UsdOf(item_data)[1].val # value
    /\ "shares" \in DOMAIN item_data["units"]

(* C8: with several 'USD' observations of the target accession the one     *)
(* with the lowest index is returned.                                      *)
C8_FirstMatchWins ==
    pc = "lookup_returned" /\ MatchesOf(item_data, accession_number) # {} =>
        value = UsdOf(item_data)[FirstOf(MatchesOf(item_data,
                                                   accession_number))].val

(* two observations of the target accession with different values *)
C8_Witness ==
    /\ pc = "lookup_returned"
    /\ \E i, j \in MatchesOf(item_data, accession_number) :
          /\ i < j
          /\ UsdOf(item_data)[i].val # UsdOf(item_data)[j].val
          /\ value = UsdOf(item_data)[i].val

----------------------------------------------------------------------------
(* process_financial_statement *)

EmptyData == [keys |-> <<>>, vals |-> EmptyDict]

(* data[k] = v on an insertion-ordered dict, the new key put in front *)
setitem_front(d, k, v) ==
    [keys |-> IF k \in Range(d.keys) THEN d.keys ELSE <<k>> \o d.keys,
     vals |-> [x \in DOMAIN d.vals \cup {k} |->
                  IF x = k THEN v ELSE d.vals[x]]]

(* data[k] = v on an insertion-ordered dict *)
setitem(d, k, v) ==
    [keys |-> IF k \in Range(d.keys) THEN d.keys ELSE Append(d.keys, k),
     vals |-> [x \in DOMAIN d.vals \cup {k} |->
                  IF x = k THEN v ELSE d.vals[x]]]

(* pd.DataFrame(data) for a dict of lists: one column per key in insertion *)
(* order, as many rows as the lists are long, no row for the empty dict    *)
DataFrame(d) ==
    [py |-> "DataFrame",
     columns |-> d.keys,
     nrows |-> IF d.keys = <<>> THEN 0 ELSE Len(d.vals[d.keys[1]]),
     col |-> d.vals]

(* the truth test of 'if value:' *)
truthy(v) == v # None /\ v # PyInt(0)
(* the test of 'if value is not None:' *)
is_not_None(v) == v # None

(* the loop indexing facts_data[taxonomy][concept] without testing that   *)
(* the keys are there *)
RECURSIVE process_loop_unchecked(_, _, _, _)
process_loop_unchecked(facts, its, accn, data) ==
    IF its = <<>> THEN DataFrame(data)
    ELSE LET label == its[1][1]
             parts == split(its[1][2], ":")
         IN  IF Len(parts) # 2 THEN Raise("ValueError")
             ELSE IF parts[1] \in DOMAIN facts
                     /\ parts[2] \in DOMAIN facts[parts[1]]
             THEN LET v == get_value_for_accession(
                               facts[parts[1]][parts[2]], accn)
                  IN  IF is_not_None(v)
                      THEN process_loop_unchecked(facts, Tail(its), accn,
                                                  setitem(data, label, <<v>>))
                      ELSE process_loop_unchecked(facts, Tail(its), accn, data)
             ELSE Raise("KeyError")

(* for label, item_key in items.items(): ... return pd.DataFrame(data) *)
RECURSIVE process_loop(_, _, _, _)
process_loop(facts, its, accn, data) ==
    IF its = <<>> THEN DataFrame(data)
    ELSE LET label == its[1][1]
             parts == split(its[1][2], ":")
         IN  IF Len(parts) # 2 THEN Raise("ValueError")
             ELSE IF parts[1] \in DOMAIN facts
                     /\ parts[2] \in DOMAIN facts[parts[1]]
             THEN LET v == get_value_for_accession(
                               facts[parts[1]][parts[2]], accn)
                  IN  IF is_not_None(v)
                      THEN process_loop(facts, Tail(its), accn,
                                        setitem(data, label, <<v>>))
                      ELSE process_loop(facts, Tail(its), accn, data)
             ELSE process_loop(facts, Tail(its), accn, data)

(* a projection that leaves the row empty for one filing date *)
process_financial_statement_dated(facts, its, fdate, accn) ==
    IF fdate = 1 THEN process_loop(facts, <<>>, accn, EmptyData)
    ELSE process_loop(facts, its, accn, EmptyData)

process_financial_statement(facts, its, fdate, accn) ==
    process_loop(facts, its, accn, EmptyData)

Labels == {"X", "Y", "Z"}
Taxonomies == {<<"u">>, <<"v">>}
Concepts == {<<"a">>, <<"b">>}
ItemKeys == {<<"u", ":", "a">>, <<"u", ":", "b">>, <<"v", ":", "a">>,
             <<"u", "a">>, <<"u", ":", "a", ":", "b">>}
(* a dict has one entry per key: the labels of a definition are distinct *)
Definitions ==
    {d \in SeqsUpTo(Labels \X ItemKeys, MaxItems) :
        \A i, j \in 1..Len(d) : d[i][1] = d[j][1] => i = j}
Dates == 1..MaxDate

Usd(l) == [label |-> "item", units |-> [USD |-> l]]
ProjItems ==
    {[label |-> "item"],
     [label |-> "item",
      units |-> [shares |-> <<[accn |-> "A", val |-> PyInt(1)]>>]],
     Usd(<<[accn |-> "A", val |-> PyInt(0)]>>),
     Usd(<<[accn |-> "B", val |-> PyInt(1)], [accn |-> "A", val |-> PyInt(1)],
           [accn |-> "A", val |-> PyInt(0)]>>)}
ConceptDicts == UNION {[D -> ProjItems] : D \in SUBSET Concepts}
OtherTaxonomy == [c \in {<<"a">>} |-> Usd(<<[accn |-> "A", val |-> PyInt(1)]>>)]
Repositories ==
    {EmptyDict, [t \in {<<"v">>} |-> OtherTaxonomy]}
    \cup {[t \in {<<"u">>} |-> c] : c \in ConceptDicts}
    \cup {[t \in Taxonomies |-> IF t = <<"u">> THEN c ELSE OtherTaxonomy] :
             c \in ConceptDicts}

ProjInit ==
    /\ pc = "project"
    /\ facts_data \in Repositories
    /\ items \in Definitions
    /\ filing_date \in Dates
    /\ accession_number \in Targets
    /\ result = Unbound /\ again = Unbound
    /\ IdleCik /\ IdleLookup /\ IdleRun

Project ==
    /\ pc = "project"
    /\ result' = process_financial_statement(facts_data, items, filing_date,
                                              accession_number)
    /\ pc' = "project_returned"
    /\ UNCHANGED <<facts_data, items, filing_date, accession_number, again,
                   cikVars, lookupVars, runVars>>

(* a second call on the same repository, definition and accession *)
ProjectAgain ==
    /\ pc = "project_returned"
    /\ \E d \in Dates :
          /\ filing_date' = d
          /\ again' = process_financial_statement(facts_data, items, d,
                                                  accession_number)
    /\ pc' = "project_repeated"
    /\ UNCHANGED <<facts_data, items, accession_number, result,
                   cikVars, lookupVars, runVars>>

ProjNext == Project \/ ProjectAgain
ProjSpec == ProjInit /\ [][ProjNext]_vars

(* every key of the definition has the form taxonomy:concept *)
WellFormed(its) ==
    \A i \in 1..Len(its) :
        Cardinality({k \in 1..Len(its[i][2]) : its[i][2][k] = ":"}) = 1
LabelsOf(its) == [i \in 1..Len(its) |-> its[i][1]]

(* the records the definition gives for label l: those of a taxonomy and a *)
(* concept of the repository that the key of l names                       *)
RecordsFor(facts, its, l) ==
    {facts[t][c] : <<t, c>> \in
        {tc \in (DOMAIN facts) \X Concepts :
            /\ tc[2] \in DOMAIN facts[tc[1]]
            /\ \E i \in 1..Len(its) :
                  its[i] = <<l, tc[1] \o <<":">> \o tc[2]>>}}
Found(facts, its, accn, l) ==
    \E r \in RecordsFor(facts, its, l) : MatchesOf(r, accn) # {}
IsTable(r) == r.py = "DataFrame"

(* C2: the row holds label L exactly when L is in the definition, its      *)
(* taxonomy and concept are in the repository and the lookup finds a value *)
(* (0 counts as found); the value under L is the looked-up value; no other *)
(* label appears.                                                          *)
C2_RowHoldsExactlyFoundLabels ==
    pc = "project_returned" /\ WellFormed(items) =>
        /\ IsTable(result)
        /\ DOMAIN result.col = Range(result.columns)
        /\ \A l \in Labels :
              l \in Range(result.columns)
                  <=> Found(facts_data, items, accession_number, l)
        /\ \A l \in Range(result.columns) :
              \A r \in RecordsFor(facts_data, items, l) :
                  result.col[l] =
                      <<UsdOf(r)[FirstOf(MatchesOf(r, accession_number))].val>>

(* one label found with the value 0, one label of the definition omitted   *)
C2_Witness ==
    /\ pc = "project_returned" /\ WellFormed(items) /\ IsTable(result)
    /\ Len(items) = 2
    /\ Len(result.columns) = 1
    /\ result.col[result.columns[1]] = <<PyInt(0)>>

(* C6: for a well-formed repository and definition the projection returns  *)
(* a row and never raises; missing taxonomy, concept, unit or accession    *)
(* only omit the label, and when nothing matches the row is empty.         *)
C6_ProjectionNeverRaises ==
    pc = "project_returned" /\ WellFormed(items) =>
        /\ IsTable(result)
        /\ (\A l \in Labels :
                ~Found(facts_data, items, accession_number, l))
              => result.columns = <<>> /\ result.col = EmptyDict

(* a definition of two labels, one with a missing taxonomy or concept,     *)
(* projected to the empty row *)
C6_Witness ==
    /\ pc = "project_returned" /\ WellFormed(items) /\ Len(items) = 2
    /\ IsTable(result) /\ result.columns = <<>>
    /\ \E i \in 1..Len(items) : RecordsFor(facts_data, items, items[i][1]) = {}
    /\ \E i \in 1..Len(items) :
          \E r \in RecordsFor(facts_data, items, items[i][1]) :
              UsdOf(r) # <<>> /\ MatchesOf(r, accession_number) = {}

----------------------------------------------------------------------------
(* the three report definitions *)

Key(concept) == <<"us-gaap", ":", concept>>

income_items ==
    << <<"Revenue", Key("Revenues")>>,
       <<"Cost of Revenue", Key("CostOfRevenue")>>,
       <<"Gross Profit", Key("GrossProfit")>>,
       <<"Operating Expenses", Key("OperatingExpenses")>>,
       <<"Operating Income", Key("OperatingIncomeLoss")>>,
       <<"Net Income", Key("NetIncomeLoss")>> >>

cash_flow_items ==
    << <<"Cash from Operating Activities",
         Key("NetCashProvidedByUsedInOperatingActivities")>>,
       <<"Cash from Investing Activities",
         Key("NetCashProvidedByUsedInInvestingActivities")>>,
       <<"Cash from Financing Activities",
         Key("NetCashProvidedByUsedInFinancingActivities")>>,
       <<"Net Change in Cash", Key("NetIncreaseDecreaseInCash")>> >>

balance_sheet_items ==
    << <<"Total Assets", Key("Assets")>>,
       <<"Total Liabilities", Key("Liabilities")>>,
       <<"Total Equity", Key("StockholdersEquity")>>,
       <<"Cash and Cash Equivalents",
         Key("CashAndCashEquivalentsAtCarryingValue")>>,
       <<"Total Current Assets", Key("AssetsCurrent")>>,
       <<"Total Current Liabilities", Key("LiabilitiesCurrent")>> >>

process_income_statement(facts, fdate, accn) ==
    process_financial_statement(facts, income_items, fdate, accn)
process_cash_flow_statement(facts, fdate, accn) ==
    process_financial_statement(facts, cash_flow_items, fdate, accn)
process_balance_sheet(facts, fdate, accn) ==
    process_financial_statement(facts, balance_sheet_items, fdate, accn)

----------------------------------------------------------------------------
(* get_latest_10k_url *)

PyStr(x) == [py |-> "str", v |-> x]
Return(v) == [py |-> "return", v |-> v]
NoFile == [py |-> "nofile"]
FileNames == {"income_statement", "cash_flow_statement", "balance_sheet"}

(* 'not cik' *)
not(v) == v = None \/ v = PyInt(0)

(* allForms[allForms['form'] == '10-K'] *)
Is10K(row) == row.form = "10-K"
form10k_of(rows) == SelectSeq(rows, Is10K)

(* form10k.iloc[0] *)
iloc_0(rows) == rows[1]

RunTickers == {<<"a">>, <<"A">>}
RunTables == {JoinLines(<<>>),
              JoinLines(<< <<<<"a">>, <<"0">>>> >>),
              JoinLines(<< <<<<"b">>, <<"1">>>>, <<<<"a">>, <<"1", "0">>>> >>)}
Forms == {"10-K", "10-Q"}
FilingRows == [form : Forms, filingDate : Dates, accessionNumber : Accns]
FilingLists == SeqsUpTo(FilingRows, MaxFilings)
RunItems == {Usd(<<[accn |-> "A", val |-> PyInt(1)]>>),
             Usd(<<[accn |-> "B", val |-> PyInt(1)],
                   [accn |-> "A", val |-> PyInt(0)]>>)}
RunConcepts == {<<"Revenues">>, <<"NetIncreaseDecreaseInCash">>, <<"Assets">>}
RunFacts ==
    {EmptyDict}
    \cup {[t \in {<<"us-gaap">>} |-> c] :
             c \in UNION {[D -> RunItems] : D \in SUBSET RunConcepts}}

RunInit ==
    /\ pc = "get_cik"
    /\ ticker \in RunTickers
    /\ response_text = Unbound /\ ref_lines = Unbound /\ cik = Unbound
    /\ allForms = Unbound
    /\ income_statement = Unbound /\ cash_flow_statement = Unbound
    /\ balance_sheet = Unbound
    /\ files = [n \in FileNames |-> NoFile]
    /\ writes = [n \in FileNames |-> 0]
    /\ acquired = {} /\ failed = {}
    /\ ret = Unbound
    /\ IdleShared /\ IdleLookup /\ IdleProj

(* the function ends: by a return or by an exception nobody caught *)
Ends(r) == pc' = "done" /\ ret' = r

(* requests.get / raise_for_status of get_cik raises outside the try *)
CikRequestRaises ==
    /\ pc = "get_cik"
    /\ failed' = failed \cup {"cik"}
    /\ Ends(Raise("RequestException"))
    /\ UNCHANGED <<cikVars, lookupVars, projVars, accession_number,
                   facts_data, filing_date, allForms, income_statement,
                   cash_flow_statement, balance_sheet, files, writes,
                   acquired>>

(* cik = get_cik(ticker); if not cik: return None *)
ResolveCik ==
    /\ pc = "get_cik"
    /\ \E text \in RunTables :
          LET c == get_cik(ticker, text)
          IN  /\ cik' = c
              /\ IF not(c)
                 THEN /\ Ends(Return(None))
                      /\ failed' = failed \cup {"cik"}
                      /\ UNCHANGED acquired
                 ELSE /\ pc' = "submissions"
                      /\ acquired' = acquired \cup {"cik"}
                      /\ UNCHANGED <<ret, failed>>
    /\ UNCHANGED <<ticker, response_text, ref_lines, lookupVars, projVars,
                   accession_number, facts_data, filing_date, allForms,
                   income_statement, cash_flow_statement, balance_sheet,
                   files, writes>>

(* the submissions request or its JSON parsing fails inside the try: the   *)
(* except clauses log and return None                                      *)
SubmissionsFails ==
    /\ pc = "submissions"
    /\ \E e \in {"RequestException", "JSONDecodeError"} :
          failed' = failed \cup {"filings:" \o e}
    /\ Ends(Return(None))
    /\ UNCHANGED <<cikVars, lookupVars, projVars, accession_number,
                   facts_data, filing_date, allForms, income_statement,
                   cash_flow_statement, balance_sheet, files, writes,
                   acquired>>

(* the submissions JSON lacks 'filings' or 'recent': the KeyError is not    *)
(* caught by the except clauses                                            *)
SubmissionsMalformed ==
    /\ pc = "submissions"
    /\ failed' = failed \cup {"filings:KeyError"}
    /\ Ends(Raise("KeyError"))
    /\ UNCHANGED <<cikVars, lookupVars, projVars, accession_number,
                   facts_data, filing_date, allForms, income_statement,
                   cash_flow_statement, balance_sheet, files, writes,
                   acquired>>

(* the filings are read; without a 10-K the function returns None, else    *)
(* the first 10-K row gives filing_date and accession_number               *)
SelectLatest10K ==
    /\ pc = "submissions"
    /\ \E rows \in FilingLists :
          /\ allForms' = rows
          /\ IF form10k_of(rows) # <<>>
             THEN /\ filing_date' = iloc_0(form10k_of(rows)).filingDate
                  /\ accession_number' =
                         iloc_0(form10k_of(rows)).accessionNumber
                  /\ pc' = "companyfacts"
                  /\ acquired' = acquired \cup {"filings"}
                  /\ UNCHANGED <<ret, failed>>
             ELSE /\ Ends(Return(None))
                  /\ failed' = failed \cup {"10-K"}
                  /\ UNCHANGED <<filing_date, accession_number, acquired>>
    /\ UNCHANGED <<cikVars, lookupVars, projVars, facts_data,
                   income_statement, cash_flow_statement, balance_sheet,
                   files, writes>>

(* a facts failure handled as if the facts had arrived *)
CompanyFactsFailsIgnored ==
    /\ pc = "companyfacts"
    /\ \E e \in {"RequestException", "JSONDecodeError"} :
          failed' = failed \cup {"facts:" \o e}
    /\ pc' = "write_income"
    /\ facts_data' = EmptyDict
    /\ income_statement' = process_income_statement(
                               EmptyDict, filing_date, accession_number)
    /\ cash_flow_statement' = process_cash_flow_statement(
                                  EmptyDict, filing_date, accession_number)
    /\ balance_sheet' = process_balance_sheet(
                            EmptyDict, filing_date, accession_number)
    /\ UNCHANGED <<cikVars, lookupVars, projVars, accession_number,
                   filing_date, allForms, files, writes, acquired, ret>>

(* the companyfacts request or its JSON parsing fails: return None *)
CompanyFactsFails ==
    /\ pc = "companyfacts"
    /\ \E e \in {"RequestException", "JSONDecodeError"} :
          failed' = failed \cup {"facts:" \o e}
    /\ Ends(Return(None))
    /\ UNCHANGED <<cikVars, lookupVars, projVars, accession_number,
                   facts_data, filing_date, allForms, income_statement,
                   cash_flow_statement, balance_sheet, files, writes,
                   acquired>>

(* facts_data = companyFacts.json().get('facts', {}) and the three         *)
(* projections, all before the first to_csv                                *)
ProcessStatements ==
    /\ pc = "companyfacts"
    /\ \E f \in RunFacts :
          /\ facts_data' = f
          /\ income_statement' =
                 process_income_statement(f, filing_date, accession_number)
          /\ cash_flow_statement' =
                 process_cash_flow_statement(f, filing_date, accession_number)
          /\ balance_sheet' =
                 process_balance_sheet(f, filing_date, accession_number)
    /\ acquired' = acquired \cup {"facts"}
    /\ pc' = "write_income"
    /\ UNCHANGED <<cikVars, lookupVars, projVars, accession_number,
                   filing_date, allForms, files, writes, failed, ret>>

(* frame.to_csv(name) completes *)
to_csv(name, frame, next) ==
    /\ files' = [files EXCEPT ![name] = frame]
    /\ writes' = [writes EXCEPT ![name] = @ + 1]
    /\ pc' = next
    /\ UNCHANGED <<cikVars, lookupVars, projVars, accession_number,
                   facts_data, filing_date, allForms, income_statement,
                   cash_flow_statement, balance_sheet, acquired, failed, ret>>

WriteIncomeStatement ==
    pc = "write_income"
    /\ to_csv("income_statement", income_statement, "write_cash_flow")
WriteCashFlowStatement ==
    pc = "write_cash_flow"
    /\ to_csv("cash_flow_statement", cash_flow_statement, "write_balance")
WriteBalanceSheet ==
    pc = "write_balance"
    /\ to_csv("balance_sheet", balance_sheet, "return")

(* a to_csv call raises OSError (target not writable, disk full); no      *)
(* except clause catches it and the files written so far stay             *)
WriteRaises ==
    /\ pc \in {"write_income", "write_cash_flow", "write_balance"}
    /\ Ends(Raise("OSError"))
    /\ UNCHANGED <<cikVars, lookupVars, projVars, accession_number,
                   facts_data, filing_date, allForms, income_statement,
                   cash_flow_statement, balance_sheet, files, writes,
                   acquired, failed>>

(* return accession_number *)
ReturnAccession ==
    /\ pc = "return"
    /\ Ends(Return(PyStr(accession_number)))
    /\ UNCHANGED <<cikVars, lookupVars, projVars, accession_number,
                   facts_data, filing_date, allForms, income_statement,
                   cash_flow_statement, balance_sheet, files, writes,
                   acquired, failed>>

RunNext ==
    \/ CikRequestRaises
    \/ ResolveCik
    \/ SubmissionsFails
    \/ SubmissionsMalformed
    \/ SelectLatest10K
    \/ CompanyFactsFails
    \/ ProcessStatements
    \/ WriteIncomeStatement
    \/ WriteCashFlowStatement
    \/ WriteBalanceSheet
    \/ WriteRaises
    \/ ReturnAccession
RunSpec == RunInit /\ [][RunNext]_vars

Written == {n \in FileNames : files[n] # NoFile}

(* C3: when an acquisition step fails (ticker unresolved, no 10-K, fetch   *)
(* or parse failure of the filings or of the facts) none of the three CSV  *)
(* files is written: every acquisition step has completed successfully     *)
(* before the first file write.                                            *)
C3_NoWriteAfterFailedAcquisition ==
    /\ failed # {} => Written = {} /\ \A n \in FileNames : writes[n] = 0
    /\ (\E n \in FileNames : writes[n] > 0 \/ files[n] # NoFile)
          => acquired = {"cik", "filings", "facts"} /\ failed = {}
    /\ pc \in {"write_income", "write_cash_flow", "write_balance", "return"}
          => acquired = {"cik", "filings", "facts"} /\ failed = {}

(* the facts request failed after the ticker and the 10-K were found: the  *)
(* run returned None and wrote nothing                                     *)
C3_Witness ==
    /\ pc = "done" /\ ret = Return(None)
    /\ acquired = {"cik", "filings"}
    /\ "facts:RequestException" \in failed
    /\ Written = {}

(* C4 as stated: a run that returns an accession has written each of the   *)
(* three files exactly once, each projected from the same repository and   *)
(* accession; and no run ends with only one or two of the files written.   *)
C4_AllOrNothing ==
    pc = "done" =>
        /\ (ret.py = "return" /\ ret.v # None) =>
              /\ ret.v = PyStr(accession_number)
              /\ \A n \in FileNames : writes[n] = 1
              /\ files["income_statement"] = process_income_statement(
                     facts_data, filing_date, accession_number)
              /\ files["cash_flow_statement"] = process_cash_flow_statement(
                     facts_data, filing_date, accession_number)
              /\ files["balance_sheet"] = process_balance_sheet(
                     facts_data, filing_date, accession_number)
        /\ Cardinality(Written) \in {0, 3}

(* C5 as stated: the selected accession is that of the 10-K entry with the *)
(* latest filing date among all 10-K entries, whatever the order of the    *)
(* list.                                                                   *)
C5_SelectsLatestFilingDate ==
    "filings" \in acquired =>
        \E i \in 1..Len(allForms) :
            /\ Is10K(allForms[i])
            /\ allForms[i].accessionNumber = accession_number
            /\ \A j \in 1..Len(allForms) :
                  Is10K(allForms[j])
                      => allForms[j].filingDate <= allForms[i].filingDate

====
